---- MODULE Spec2Model ----
(***************************************************************************)
(* Model of the skill-gap analyzer:                                        *)
(*   - app/gemini_service.py : generate_learning_path, analyze_skill_gap   *)
(*   - app/resume_parser.py  : ResumeParser (ontology, extraction,         *)
(*                             proficiency estimation, parse_resume)       *)
(* Strings are sequences of one-character strings so that str.lower() and  *)
(* the substring test `in` are computed character by character.            *)
(* Python dicts whose iteration order is used are sequences of entries     *)
(* with distinct keys (insertion order); dicts that are only looked up are *)
(* functions from their key set.                                           *)
(***************************************************************************)
EXTENDS Integers, Sequences, FiniteSets, TLC

\* ------------------------------------------------------------------ bounds

\* Largest proficiency level the inputs of an analysis are drawn from.
MaxLevel == 2

\* Largest number of entries of a job_requirements input.
MaxSkills == 3

\* ----------------------------------------------------------------- strings

\* str.lower() on one character (ASCII letters).
LowerChar(c) ==
    CASE c = "A" -> "a" [] c = "B" -> "b" [] c = "C" -> "c" [] c = "D" -> "d"
      [] c = "E" -> "e" [] c = "F" -> "f" [] c = "G" -> "g" [] c = "H" -> "h"
      [] c = "I" -> "i" [] c = "J" -> "j" [] c = "K" -> "k" [] c = "L" -> "l"
      [] c = "M" -> "m" [] c = "N" -> "n" [] c = "O" -> "o" [] c = "P" -> "p"
      [] c = "Q" -> "q" [] c = "R" -> "r" [] c = "S" -> "s" [] c = "T" -> "t"
      [] c = "U" -> "u" [] c = "V" -> "v" [] c = "W" -> "w" [] c = "X" -> "x"
      [] c = "Y" -> "y" [] c = "Z" -> "z" [] OTHER -> c

\* str.lower()
Lower(s) == [i \in 1..Len(s) |-> LowerChar(s[i])]

\* Python's `needle in hay` for strings.
Contains(hay, needle) ==
    \E i \in 0..(Len(hay) - Len(needle)) :
        \A j \in 1..Len(needle) : hay[i + j] = needle[j]

\* Skill names an analysis request may use: two that differ only in letter
\* case, and a third one.
NameGo == <<"G", "o">>
NameGoLower == <<"g", "o">>
NameSQL == <<"S", "Q", "L">>
SkillNames == {NameGo, NameGoLower, NameSQL}

\* ------------------------------------------------------------- dict helpers

\* Keys of an insertion-ordered dict of entries with a `skill` field.
Keys(d) == {d[i].skill : i \in 1..Len(d)}

\* The entry of key k (k is a key of d).
Entry(d, k) == d[CHOOSE i \in 1..Len(d) : d[i].skill = k]

\* Sequences over S with pairwise distinct elements, of length at most n.
RECURSIVE DistinctSeqs(_, _)
DistinctSeqs(S, n) ==
    IF n = 0 \/ S = {} THEN {<<>>}
    ELSE {<<>>} \cup
         UNION {{<<x>> \o t : t \in DistinctSeqs(S \ {x}, n - 1)} : x \in S}

\* ------------------------------------------------------------------- state

VARIABLES
    pc,                 \* position of the analysis: "idle", "input_error",
                        \* "missing_loop", "below_loop", "return", "returned"
    resume_skills,      \* argument of analyze_skill_gap (observed map)
    job_requirements,   \* argument of analyze_skill_gap (required map, ordered)
    gap_analysis,       \* local gap_analysis: the three partitions
    learning_paths,     \* local learning_paths: skill -> data
    idx,                \* position of the running for loop in its dict
    calls,              \* external generation calls issued so far, in order
    results,            \* what each of those calls returned, in order
    returned,           \* return value of analyze_skill_gap, or None
    ppc,                \* position of the ResumeParser: "unbuilt", "ready",
                        \* "parsed", "failed"
    skill_ontology,     \* ResumeParser.skill_ontology
    text,               \* the text extracted from the resume
    pattern_skills,     \* what the loop over the tokens added to `skills`
    skills,             \* return value of _extract_skills_with_nlp
    skill_levels,       \* return value of parse_resume
    est,                \* a call of _estimate_proficiency: its arguments and
                        \* its return value
    analysis_results,   \* st.session_state.analysis_results
    view,               \* what the last run of show_upskilling_paths drew
    tip_clicks          \* the "Get tips to master ..." buttons pressed, in order

analysis_vars == <<pc, resume_skills, job_requirements, gap_analysis,
                   learning_paths, idx, calls, results, returned>>

parser_vars == <<ppc, skill_ontology, text, pattern_skills, skills, skill_levels>>

ui_vars == <<analysis_results, view, tip_clicks>>

vars == <<analysis_vars, parser_vars, est, ui_vars>>

None == [none |-> TRUE]

\* Levels an input map may carry. json.loads accepts any integer, so the
\* sentinel 0 (not a SkillLevel) is among them.
InputLevels == 0..MaxLevel

\* Well-formed proficiency levels (SkillLevel of the data model).
SkillLevels == 1..MaxLevel

\* The observed maps: dicts from skill names to levels.
ObservedMaps == UNION {[S -> InputLevels] : S \in SUBSET SkillNames}

\* The required maps: ordered dicts from skill names to levels.
RequiredMaps ==
    UNION {{[i \in 1..Len(ks) |-> [skill |-> ks[i], level |-> lv[i]]] :
              lv \in [1..Len(ks) -> InputLevels]} :
           ks \in DistinctSeqs(SkillNames, MaxSkills)}

\* The SkillMaps: observed and required maps whose levels are SkillLevels.
ObservedSkillMaps == UNION {[S -> SkillLevels] : S \in SUBSET SkillNames}

\* The required SkillMaps are taken with their keys in one order: which of
\* them are missing, below level or matching is left to the observed map.
SkillOrder == <<NameSQL, NameGoLower, NameGo>>

RequiredSkillMaps ==
    UNION {{[i \in 1..Len(ks) |-> [skill |-> ks[i], level |-> lv[i]]] :
              lv \in [1..Len(ks) -> SkillLevels]} :
           ks \in {SelectSeq(SkillOrder, LAMBDA k : k \in S) :
                     S \in {T \in SUBSET SkillNames : Cardinality(T) <= MaxSkills}}}

EmptyGapAnalysis ==
    [missing_skills |-> <<>>, matching_skills |-> <<>>, below_level_skills |-> <<>>]

\* ------------------------------------------- the advice generation service

\* What model.generate_content(prompt) may do: raise, or return a response
\* whose text is a body, possibly wrapped in a ```json fence. The body is
\* free text produced by the service: the JSON object asked for, some other
\* JSON value (an array), or text that is no JSON at all.
JsonObject == "json_object"
JsonArray == "json_array"
NotJson == "not_json"
Bodies == {JsonObject, JsonArray, NotJson}

Responses ==
    {[raises |-> TRUE, fenced |-> FALSE, body |-> NotJson],
     [raises |-> FALSE, fenced |-> FALSE, body |-> NotJson],
     [raises |-> FALSE, fenced |-> FALSE, body |-> JsonArray]} \cup
    {[raises |-> FALSE, fenced |-> f, body |-> JsonObject] : f \in BOOLEAN}

\* response_text.replace('```json', '').replace('```', '').strip()
CleanResponse(response) == [response EXCEPT !.fenced = FALSE]

\* json.loads succeeds on a JSON value that is not wrapped in a fence.
JsonLoads(response_text) ==
    IF ~response_text.fenced /\ response_text.body # NotJson
    THEN [ok |-> TRUE, value |-> response_text.body]
    ELSE [ok |-> FALSE, value |-> "JSONDecodeError"]

\* generate_learning_path: the try block and its except clause.
generate_learning_path(skill, current_level, target_level, response) ==
    IF response.raises
    THEN [success |-> FALSE, error |-> "service_error"]
    ELSE LET response_data == JsonLoads(CleanResponse(response))
         IN  IF response_data.ok
             THEN [success |-> TRUE, data |-> response_data.value]
             ELSE [success |-> FALSE, error |-> response_data.value]

\* get_skill_improvement_tips: the try block and its except clause.
get_skill_improvement_tips(skill, current_level, response) ==
    IF response.raises
    THEN [success |-> FALSE, error |-> "service_error"]
    ELSE LET response_data == JsonLoads(CleanResponse(response))
         IN  IF response_data.ok
             THEN [success |-> TRUE, data |-> response_data.value]
             ELSE [success |-> FALSE, error |-> response_data.value]

\* ------------------------------------------------------- analyze_skill_gap

\* `skill not in resume_skills`
NotInResume(skill, observed) == skill \notin DOMAIN observed

\* Faulty variant: the comparison is strict.
MeetsLevelStrict(current, req_level) == current > req_level

\* `resume_skills[skill] >= req_level`
MeetsLevel(current, req_level) == current >= req_level

\* Faulty variant: a missing skill is recorded at the baseline level 1.
MissingEntryBaseline(skill, req_level) ==
    [skill |-> skill, required_level |-> req_level, current_level |-> 1]

MissingEntry(skill, req_level) ==
    [skill |-> skill, required_level |-> req_level, current_level |-> 0]

\* Faulty variant: the two levels are swapped.
MatchingEntrySwapped(skill, req_level, current) ==
    [skill |-> skill, required_level |-> current, current_level |-> req_level]

MatchingEntry(skill, req_level, current) ==
    [skill |-> skill, required_level |-> req_level, current_level |-> current]

BelowEntry(skill, req_level, current) ==
    [skill |-> skill, required_level |-> req_level, current_level |-> current]

\* The classification loop over job_requirements.items(), from entry i on.
RECURSIVE ClassifyFrom(_, _, _, _)
ClassifyFrom(observed, required, i, gap) ==
    IF i > Len(required) THEN gap
    ELSE LET skill == required[i].skill
             req_level == required[i].level
         IN  IF NotInResume(skill, observed)
             THEN ClassifyFrom(observed, required, i + 1,
                    [gap EXCEPT !.missing_skills =
                        Append(@, MissingEntry(skill, req_level))])
             ELSE IF MeetsLevel(observed[skill], req_level)
             THEN ClassifyFrom(observed, required, i + 1,
                    [gap EXCEPT !.matching_skills =
                        Append(@, MatchingEntry(skill, req_level, observed[skill]))])
             ELSE ClassifyFrom(observed, required, i + 1,
                    [gap EXCEPT !.below_level_skills =
                        Append(@, BelowEntry(skill, req_level, observed[skill]))])

\* Faulty variant: an observed skill that is not required is reported as matching.
ClassifyWithExtras(observed, required) ==
    LET gap == ClassifyFrom(observed, required, 1, EmptyGapAnalysis)
        extras == DOMAIN observed \ Keys(required)
    IN  IF extras = {} THEN gap
        ELSE LET skill == CHOOSE x \in extras : TRUE
             IN  [gap EXCEPT !.matching_skills =
                    Append(@, MatchingEntry(skill, 0, observed[skill]))]

Classify(observed, required) == ClassifyFrom(observed, required, 1, EmptyGapAnalysis)

\* Where control goes once the loop over `d` has handled its first i entries.
\* Faulty variant: the loop over the below-level skills is skipped.
AfterMissingOnly(gap, i) ==
    IF i < Len(gap.missing_skills) THEN "missing_loop" ELSE "return"

AfterMissing(gap, i) ==
    IF i < Len(gap.missing_skills) THEN "missing_loop"
    ELSE IF Len(gap.below_level_skills) > 0 THEN "below_loop"
    ELSE "return"

\* Faulty variant: the loop over the missing skills runs after the loop over
\* the below-level skills as well.
AfterBelowThenMissing(gap, i) ==
    IF i < Len(gap.below_level_skills) THEN "below_loop"
    ELSE IF Len(gap.missing_skills) > 0 THEN "missing_loop"
    ELSE "return"

AfterBelow(gap, i) ==
    IF i < Len(gap.below_level_skills) THEN "below_loop" ELSE "return"

\* Faulty variant: the result is attached whether or not the call succeeded.
AttachAdviceAlways(paths, skill, result) ==
    [k \in DOMAIN paths \cup {skill} |->
        IF k # skill THEN paths[k]
        ELSE IF result.success THEN result.data ELSE result.error]

\* learning_paths[skill] = result['data'], only if result['success'].
AttachAdvice(paths, skill, result) ==
    IF result.success
    THEN [k \in DOMAIN paths \cup {skill} |->
            IF k = skill THEN result.data ELSE paths[k]]
    ELSE paths

CallRecord(fn, skill, current_level, target_level) ==
    [fn |-> fn, skill |-> skill, current_level |-> current_level,
     target_level |-> target_level]

\* ------------------------------------------------------------ ResumeParser

\* Largest number of sentences of a text given to _estimate_proficiency.
MaxSentences == 2

\* Largest number of sentences of a resume given to parse_resume.
MaxDocSentences == 1

\* Largest number of tokens the dependency parse makes the token loop add.
MaxPatternCands == 2

\* The fixed parts of the f-strings of _estimate_proficiency.
ExpertIn == <<"e", "x", "p", "e", "r", "t", " ", "i", "n", " ">>
Advanced == <<"a", "d", "v", "a", "n", "c", "e", "d", " ">>
Senior == <<"s", "e", "n", "i", "o", "r", " ">>
FivePlusYearsOf == <<"5", "+", " ", "y", "e", "a", "r", "s", " ", "o", "f", " ">>
ProficientIn == <<"p", "r", "o", "f", "i", "c", "i", "e", "n", "t", " ", "i", "n", " ">>
Strong == <<"s", "t", "r", "o", "n", "g", " ">>
Skills == <<" ", "s", "k", "i", "l", "l", "s">>
ThreeToFiveYearsOf == <<"3", "-", "5", " ", "y", "e", "a", "r", "s", " ", "o", "f", " ">>
ExperienceWith == <<"e", "x", "p", "e", "r", "i", "e", "n", "c", "e", " ", "w", "i", "t", "h", " ">>
WorkingKnowledgeOf == <<"w", "o", "r", "k", "i", "n", "g", " ", "k", "n", "o", "w", "l", "e", "d", "g", "e", " ", "o", "f", " ">>
OneToThreeYearsOf == <<"1", "-", "3", " ", "y", "e", "a", "r", "s", " ", "o", "f", " ">>
FamiliarWith == <<"f", "a", "m", "i", "l", "i", "a", "r", " ", "w", "i", "t", "h", " ">>
Basic == <<"b", "a", "s", "i", "c", " ">>
Knowledge == <<" ", "k", "n", "o", "w", "l", "e", "d", "g", "e">>
BeginnerLevel == <<"b", "e", "g", "i", "n", "n", "e", "r", " ", "l", "e", "v", "e", "l", " ">>

\* The phrases of the four `any(...)` lists, for a lowercased skill name.
ExpertPhrases(skill_lower) ==
    {ExpertIn \o skill_lower, Advanced \o skill_lower, Senior \o skill_lower,
     FivePlusYearsOf \o skill_lower}

AdvancedPhrases(skill_lower) ==
    {ProficientIn \o skill_lower, Strong \o skill_lower \o Skills,
     ThreeToFiveYearsOf \o skill_lower}

IntermediatePhrases(skill_lower) ==
    {ExperienceWith \o skill_lower, WorkingKnowledgeOf \o skill_lower,
     OneToThreeYearsOf \o skill_lower}

BasicPhrases(skill_lower) ==
    {FamiliarWith \o skill_lower, Basic \o skill_lower \o Knowledge,
     BeginnerLevel \o skill_lower}

\* any(phrase in text_lower for phrase in [...])
AnyPhraseIn(phrases, text_lower) == \E phrase \in phrases : Contains(text_lower, phrase)

\* Faulty variant: the tiers are tried lowest first.
EstimateLowestFirst(skill, document) ==
    LET text_lower == Lower(document)
        skill_lower == Lower(skill)
    IN  IF AnyPhraseIn(BasicPhrases(skill_lower), text_lower) THEN 2
        ELSE IF AnyPhraseIn(IntermediatePhrases(skill_lower), text_lower) THEN 3
        ELSE IF AnyPhraseIn(AdvancedPhrases(skill_lower), text_lower) THEN 4
        ELSE IF AnyPhraseIn(ExpertPhrases(skill_lower), text_lower) THEN 5
        ELSE 1

\* ResumeParser._estimate_proficiency
EstimateProficiency(skill, document) ==
    LET text_lower == Lower(document)
        skill_lower == Lower(skill)
    IN  IF AnyPhraseIn(ExpertPhrases(skill_lower), text_lower) THEN 5
        ELSE IF AnyPhraseIn(AdvancedPhrases(skill_lower), text_lower) THEN 4
        ELSE IF AnyPhraseIn(IntermediatePhrases(skill_lower), text_lower) THEN 3
        ELSE IF AnyPhraseIn(BasicPhrases(skill_lower), text_lower) THEN 2
        ELSE 1

\* ------------------------------------------------------------------- texts

\* The words a text names a skill by: a skill name with capitals, and a
\* longer word that the lowercased skill name is a prefix of.
NameGolang == <<"g", "o", "l", "a", "n", "g">>
Words == {NameGo, NameGolang}

\* The sentences about some words: each word in one of the thirteen phrase
\* forms, or merely used.
Uses == <<"u", "s", "e", "s", " ">>
SentencesAbout(words) ==
    UNION {{ExpertIn \o w, Advanced \o w, Senior \o w, FivePlusYearsOf \o w,
            ProficientIn \o w, Strong \o w \o Skills, ThreeToFiveYearsOf \o w,
            ExperienceWith \o w, WorkingKnowledgeOf \o w, OneToThreeYearsOf \o w,
            FamiliarWith \o w, Basic \o w \o Knowledge, BeginnerLevel \o w,
            Uses \o w} : w \in words}

\* The texts of at most n of some sentences, joined by ". "; the empty text
\* is one of them.
RECURSIVE TextsOf(_, _)
TextsOf(sentences, n) ==
    IF n = 0 THEN {<<>>}
    ELSE TextsOf(sentences, n - 1) \cup sentences \cup
         {t \o <<".", " ">> \o sentence :
            t \in TextsOf(sentences, n - 1) \ {<<>>}, sentence \in sentences}

\* The texts _estimate_proficiency is asked about.
Texts == TextsOf(SentencesAbout(Words), MaxSentences)

\* The texts of the resumes parse_resume is given: they name the skill Go.
DocTexts == TextsOf(SentencesAbout({NameGo}), MaxDocSentences)

\* ---------------------------------------------------------------- ontology

\* The skill ontology file: absent, or a JSON object that has a "skills"
\* object (category -> skill name -> metadata; only the names are used) or
\* has none. A skill name is a key of at most one category.
Categories == {"programming", "data"}

OntologyFiles ==
    {[exists |-> FALSE]} \cup
    {[exists |-> TRUE, json |-> [version |-> 1]]} \cup
    {[exists |-> TRUE, json |-> [skills |-> cats]] :
        cats \in {c \in [Categories -> SUBSET SkillNames] :
                    c["programming"] \cap c["data"] = {}}}

EmptyDict == [k \in {} |-> {}]

\* ResumeParser._load_skill_ontology
LoadSkillOntology(file) ==
    IF file.exists THEN file.json ELSE [skills |-> EmptyDict]

\* self.skill_ontology.get('skills', {})
SkillsOf(ontology) ==
    IF "skills" \in DOMAIN ontology THEN ontology.skills ELSE EmptyDict

\* The keys of all the categories.
OntologyKeys(ontology) ==
    UNION {SkillsOf(ontology)[category] : category \in DOMAIN SkillsOf(ontology)}

\* ------------------------------------------------ _extract_skills_with_nlp

\* Faulty variant: the skill name is lowercased, the text is not.
OntologyScanTextAsIs(ontology, document) ==
    {skill \in OntologyKeys(ontology) : Contains(document, Lower(skill))}

\* Faulty variant: the operands of `in` are swapped.
OntologyScanSwapped(ontology, document) ==
    {skill \in OntologyKeys(ontology) : Contains(Lower(skill), Lower(document))}

\* The loop over the ontology: `skill.lower() in text.lower()`.
OntologyScan(ontology, document) ==
    {skill \in OntologyKeys(ontology) : Contains(Lower(document), Lower(skill))}

\* The tokens of doc = self.nlp(text.lower()): the words between blanks and
\* full stops.
Separators == {" ", "."}

RECURSIVE TokensFrom(_, _, _)
TokensFrom(s, i, word) ==
    IF i > Len(s) THEN (IF word = <<>> THEN {} ELSE {word})
    ELSE IF s[i] \in Separators
    THEN (IF word = <<>> THEN {} ELSE {word}) \cup TokensFrom(s, i + 1, <<>>)
    ELSE TokensFrom(s, i + 1, Append(word, s[i]))

Tokens(document) == TokensFrom(Lower(document), 1, <<>>)

Triggers == {<<"e", "x", "p", "e", "r", "i", "e", "n", "c", "e">>, <<"p", "r", "o", "f", "i", "c", "i", "e", "n", "t">>, <<"s", "k", "i", "l", "l", "e", "d">>, <<"f", "a", "m", "i", "l", "i", "a", "r">>}

\* The loop over the tokens. Which tokens are children of the head of a
\* trigger token with a dobj, attr or conj relation is decided by the
\* dependency parse: any tokens of the lowercased text may be, and none are
\* added when the text has no trigger token.
PatternScans(document) ==
    IF Tokens(document) \cap Triggers = {} THEN {{}}
    ELSE {found \in SUBSET Tokens(document) : Cardinality(found) <= MaxPatternCands}

\* _extract_skills_with_nlp: what the two loops add to the set `skills`,
\* `found` being what the loop over the tokens adds.
ExtractSkillsWithNlp(ontology, document, found) ==
    OntologyScan(ontology, document) \cup found

\* The loop that sets skill_found: `skill in skills_data` for some category.
SkillFound(ontology, skill) ==
    \E category \in DOMAIN SkillsOf(ontology) : skill \in SkillsOf(ontology)[category]

\* The loop of parse_resume over the candidates.
SkillLevelsOf(ontology, candidates, document) ==
    [skill \in {c \in candidates : SkillFound(ontology, c)} |->
        EstimateProficiency(skill, document)]

NoPaths == [k \in {} |-> JsonObject]

\* ------------------------------------------------- the Upskilling Paths page

\* Largest number of "Get tips to master ..." buttons pressed after an analysis.
MaxTipRequests == 1

\* Nothing of the page is on the screen.
NoView == [kind |-> "none", sections |-> {}, tip_buttons |-> {}, tips |-> None]

\* `'analysis_results' not in st.session_state or not st.session_state.analysis_results`
NoAnalysis(analysis) == analysis = None

\* `'learning_paths' not in analysis or not analysis['learning_paths']`
NoLearningPaths(analysis) == DOMAIN analysis.learning_paths = {}

\* The sections show_upskilling_paths draws past its two early returns: one
\* for each partition of gap_analysis that is not empty.
SectionsOf(analysis) ==
    {section \in {"missing_skills", "below_level_skills", "matching_skills"} :
        Len(analysis.gap_analysis[section]) > 0}

\* The "Get tips to master {skill}" buttons of the matching-skills section.
TipButtonsOf(analysis) == Keys(analysis.gap_analysis.matching_skills)

\* A run of show_upskilling_paths in which no button is pressed.
ShowUpskillingPathsView(analysis) ==
    IF NoAnalysis(analysis)
    THEN [NoView EXCEPT !.kind = "warning"]
    ELSE IF NoLearningPaths(analysis)
    THEN [NoView EXCEPT !.kind = "error"]
    ELSE [kind |-> "paths", sections |-> SectionsOf(analysis),
          tip_buttons |-> TipButtonsOf(analysis), tips |-> None]

\* `tips['success'] and 'tips' in tips['data']`: the JSON object asked for
\* has the key, a JSON array has no such element.
TipsShown(tips) == tips.success /\ tips.data = JsonObject

\* No analysis has been asked for.
AnalysisIdle ==
    /\ pc = "idle"
    /\ resume_skills = None
    /\ job_requirements = None
    /\ gap_analysis = EmptyGapAnalysis
    /\ learning_paths = NoPaths
    /\ idx = 0
    /\ calls = <<>>
    /\ results = <<>>
    /\ returned = None

\* The session state as the script initialises it, nothing drawn yet.
UIIdle ==
    /\ analysis_results = None
    /\ view = NoView
    /\ tip_clicks = <<>>

\* No ResumeParser has been constructed.
ParserUnbuilt ==
    /\ ppc = "unbuilt"
    /\ skill_ontology = None
    /\ text = None
    /\ pattern_skills = {}
    /\ skills = {}
    /\ skill_levels = None

\* _estimate_proficiency has not been called.
EstimatorIdle == est = None

Init == AnalysisIdle /\ ParserUnbuilt /\ EstimatorIdle /\ UIIdle

\* analyze_skill_gap(observed, required) is entered: the partitions are built
\* (lines 94-117) and learning_paths starts empty (line 120). The page drawn
\* is "Analyze Skills", so nothing of the Upskilling Paths page is left.
AnalyzeSkillGapOn(observed, required) ==
    /\ resume_skills' = observed
    /\ job_requirements' = required
    /\ gap_analysis' = Classify(observed, required)
    /\ pc' = AfterMissing(Classify(observed, required), 0)
    /\ learning_paths' = NoPaths
    /\ idx' = 0
    /\ calls' = <<>>
    /\ results' = <<>>
    /\ returned' = None
    /\ view' = NoView
    /\ UNCHANGED <<parser_vars, est, analysis_results, tip_clicks>>

\* The "Analyze Skills" button with two texts json.loads accepts: it calls
\* analyze_skill_gap(resume_skills, job_requirements) on what they hold,
\* whatever the levels.
AnalyzeSkillGap ==
    /\ pc = "idle"
    /\ \E observed \in ObservedMaps, required \in RequiredMaps :
         AnalyzeSkillGapOn(observed, required)

\* The "Analyze Skills" button with a text json.loads rejects: st.error, and
\* no analysis is made.
AnalyzeSkillsInvalidJson ==
    /\ pc = "idle"
    /\ pc' = "input_error"
    /\ view' = NoView
    /\ UNCHANGED <<resume_skills, job_requirements, gap_analysis, learning_paths,
                   idx, calls, results, returned, parser_vars, est,
                   analysis_results, tip_clicks>>

\* One iteration of the loop over gap_analysis['missing_skills'].items().
MissingLoopCall ==
    /\ pc = "missing_loop"
    /\ \E response \in Responses :
         LET data == gap_analysis.missing_skills[idx + 1]
             result == generate_learning_path(data.skill, 0, data.required_level,
                                              response)
         IN  /\ calls' = Append(calls, CallRecord("generate_learning_path",
                                     data.skill, 0, data.required_level))
             /\ results' = Append(results, result)
             /\ learning_paths' = AttachAdvice(learning_paths, data.skill, result)
    /\ idx' = IF AfterMissing(gap_analysis, idx + 1) = "missing_loop"
              THEN idx + 1 ELSE 0
    /\ pc' = AfterMissing(gap_analysis, idx + 1)
    /\ UNCHANGED <<resume_skills, job_requirements, gap_analysis, returned,
                   parser_vars, est, ui_vars>>

\* One iteration of the loop over gap_analysis['below_level_skills'].items().
BelowLoopCall ==
    /\ pc = "below_loop"
    /\ \E response \in Responses :
         LET data == gap_analysis.below_level_skills[idx + 1]
             result == generate_learning_path(data.skill, data.current_level,
                                              data.required_level, response)
         IN  /\ calls' = Append(calls, CallRecord("generate_learning_path",
                                     data.skill, data.current_level,
                                     data.required_level))
             /\ results' = Append(results, result)
             /\ learning_paths' = AttachAdvice(learning_paths, data.skill, result)
    /\ idx' = IF AfterBelow(gap_analysis, idx + 1) = "below_loop"
              THEN idx + 1 ELSE 0
    /\ pc' = AfterBelow(gap_analysis, idx + 1)
    /\ UNCHANGED <<resume_skills, job_requirements, gap_analysis, returned,
                   parser_vars, est, ui_vars>>

\* return {'gap_analysis': gap_analysis, 'learning_paths': learning_paths},
\* which the button handler stores in st.session_state.analysis_results.
AnalyzeSkillGapReturn ==
    /\ pc = "return"
    /\ returned' = [gap_analysis |-> gap_analysis, learning_paths |-> learning_paths]
    /\ analysis_results' = [gap_analysis |-> gap_analysis,
                            learning_paths |-> learning_paths]
    /\ pc' = "returned"
    /\ UNCHANGED <<resume_skills, job_requirements, gap_analysis, learning_paths,
                   idx, calls, results, parser_vars, est, view, tip_clicks>>

Next ==
    \/ AnalyzeSkillGap
    \/ AnalyzeSkillsInvalidJson
    \/ MissingLoopCall
    \/ BelowLoopCall
    \/ AnalyzeSkillGapReturn

Spec == Init /\ [][Next]_vars

\* ------------------------------------------------------ behaviour of the UI

\* The "Analyze Skills" button with two texts that hold SkillMaps.
AnalyzeSkills ==
    /\ pc = "idle"
    /\ \E observed \in ObservedSkillMaps, required \in RequiredSkillMaps :
         AnalyzeSkillGapOn(observed, required)

\* The page "Upskilling Paths" is drawn with no button pressed. The script
\* runs from top to bottom, so no button handler is running.
ShowUpskillingPaths ==
    /\ pc \in {"idle", "input_error", "returned"}
    /\ view' = ShowUpskillingPathsView(analysis_results)
    /\ UNCHANGED <<analysis_vars, parser_vars, est, analysis_results, tip_clicks>>

\* A "Get tips to master {skill}" button on the screen is pressed: the page
\* is drawn again and, at the button, get_skill_improvement_tips is called
\* and its tips or a warning shown.
GetTipsButton ==
    /\ view.kind = "paths"
    /\ Len(tip_clicks) < MaxTipRequests
    /\ \E skill \in view.tip_buttons, response \in Responses :
         LET data == Entry(analysis_results.gap_analysis.matching_skills, skill)
             tips == get_skill_improvement_tips(skill, data.current_level, response)
         IN  /\ tip_clicks' = Append(tip_clicks, skill)
             /\ calls' = Append(calls, CallRecord("get_skill_improvement_tips",
                                     skill, data.current_level,
                                     data.current_level + 1))
             /\ results' = Append(results, tips)
             /\ view' = [ShowUpskillingPathsView(analysis_results) EXCEPT !.tips =
                            [skill |-> skill,
                             shown |-> IF TipsShown(tips) THEN "tips" ELSE "warning"]]
    /\ UNCHANGED <<pc, resume_skills, job_requirements, gap_analysis,
                   learning_paths, idx, returned, parser_vars, est,
                   analysis_results>>

UINext ==
    \/ AnalyzeSkills
    \/ AnalyzeSkillsInvalidJson
    \/ MissingLoopCall
    \/ BelowLoopCall
    \/ AnalyzeSkillGapReturn
    \/ ShowUpskillingPaths
    \/ GetTipsButton

UISpec == Init /\ [][UINext]_vars

\* ------------------------------------------------- behaviour of the parser

\* The state after ResumeParser(): the ontology has been loaded.
ParserInit ==
    /\ AnalysisIdle /\ EstimatorIdle /\ UIIdle
    /\ ppc = "ready"
    /\ skill_ontology \in {LoadSkillOntology(file) : file \in OntologyFiles}
    /\ text = None
    /\ pattern_skills = {}
    /\ skills = {}
    /\ skill_levels = None

\* parse_resume on a file whose text extract_text returns.
ParseResume ==
    /\ ppc = "ready"
    /\ \E document \in DocTexts :
         \E found \in PatternScans(document) :
            LET candidates == ExtractSkillsWithNlp(skill_ontology, document, found)
            IN  /\ text' = document
                /\ pattern_skills' = found
                /\ skills' = candidates
                /\ skill_levels' = SkillLevelsOf(skill_ontology, candidates, document)
    /\ ppc' = "parsed"
    /\ UNCHANGED <<analysis_vars, skill_ontology, est, ui_vars>>

\* parse_resume on a file extract_text fails on: ValueError is raised.
ParseResumeFails ==
    /\ ppc = "ready"
    /\ ppc' = "failed"
    /\ UNCHANGED <<analysis_vars, skill_ontology, text, pattern_skills, skills,
                   skill_levels, est, ui_vars>>

ParserNext ==
    \/ ParseResume
    \/ ParseResumeFails

ParserSpec == ParserInit /\ [][ParserNext]_vars

\* ---------------------------------------------- behaviour of the estimator

\* The names _estimate_proficiency is asked about.
EstimatorSkills == {NameGo, NameSQL, NameGolang}

\* A call _estimate_proficiency(skill, text) about to run.
EstimatorInit ==
    /\ AnalysisIdle /\ ParserUnbuilt /\ UIIdle
    /\ est \in {[skill |-> skill, text |-> document, level |-> 0] :
                  skill \in EstimatorSkills, document \in Texts}

\* The call returns its level.
EstimateProficiencyReturn ==
    /\ est.level = 0
    /\ est' = [est EXCEPT !.level = EstimateProficiency(est.skill, est.text)]
    /\ UNCHANGED <<analysis_vars, parser_vars, ui_vars>>

EstimatorNext == EstimateProficiencyReturn

EstimatorSpec == EstimatorInit /\ [][EstimatorNext]_vars

\* ------------------------------------------------ claims on the analysis

Missing == returned.gap_analysis.missing_skills
Matching == returned.gap_analysis.matching_skills
BelowLevel == returned.gap_analysis.below_level_skills
Returned == pc = "returned"

\* Both input maps are SkillMaps: every level they hold is a SkillLevel.
InputsWellFormed ==
    /\ pc \notin {"idle", "input_error"}
    /\ \A skill \in DOMAIN resume_skills : resume_skills[skill] \in SkillLevels
    /\ \A i \in 1..Len(job_requirements) : job_requirements[i].level \in SkillLevels

\* A dict has no key twice.
UniqueKeys(d) == Cardinality(Keys(d)) = Len(d)

\* The level job_requirements holds for a key of it.
RequiredLevel(skill) == Entry(job_requirements, skill).level

\* Indices of the calls issued for a skill.
CallsFor(skill) == {j \in 1..Len(calls) : calls[j].skill = skill}

\* C1: the three partitions analyze_skill_gap returns are pairwise disjoint
\* and the union of their key sets is exactly the key set of the required
\* map; a skill of the observed map that is not required is in no partition.
C1_PartitionOfRequired ==
    Returned =>
        /\ Keys(Missing) \cap Keys(Matching) = {}
        /\ Keys(Missing) \cap Keys(BelowLevel) = {}
        /\ Keys(Matching) \cap Keys(BelowLevel) = {}
        /\ UniqueKeys(Missing) /\ UniqueKeys(Matching) /\ UniqueKeys(BelowLevel)
        /\ Keys(Missing) \cup Keys(Matching) \cup Keys(BelowLevel)
             = Keys(job_requirements)
        /\ \A skill \in DOMAIN resume_skills \ Keys(job_requirements) :
             skill \notin Keys(Missing) \cup Keys(Matching) \cup Keys(BelowLevel)

\* Two partitions are non-empty and an observed skill is not required.
C1_Witness ==
    /\ Returned /\ InputsWellFormed
    /\ Missing # <<>> /\ BelowLevel # <<>>
    /\ DOMAIN resume_skills \ Keys(job_requirements) # {}

\* C2: for observed and required skill maps, every skill placed in
\* below_level_skills has current_level > 0 and
\* gap = required_level - current_level > 0.
C2_BelowLevelGap ==
    (Returned /\ InputsWellFormed) =>
        \A i \in 1..Len(BelowLevel) :
            /\ BelowLevel[i].current_level > 0
            /\ BelowLevel[i].required_level - BelowLevel[i].current_level > 0

\* A below-level skill next to a missing one, from a well-formed observed map.
C2_Witness ==
    /\ Returned /\ InputsWellFormed
    /\ BelowLevel # <<>> /\ Missing # <<>> /\ Matching # <<>>

\* C3: every skill placed in matching_skills has
\* current_level >= required_level, the recorded current_level being
\* O[skill] and the recorded required_level being R[skill].
C3_MatchingLevels ==
    Returned =>
        \A i \in 1..Len(Matching) :
            LET e == Matching[i]
            IN  /\ e.skill \in DOMAIN resume_skills
                /\ e.current_level = resume_skills[e.skill]
                /\ e.required_level = RequiredLevel(e.skill)
                /\ e.current_level >= e.required_level

\* A skill matches with a level strictly above the required one, and another
\* matches with exactly the required level.
C3_Witness ==
    /\ Returned /\ InputsWellFormed
    /\ \E i, j \in 1..Len(Matching) :
         /\ Matching[i].current_level > Matching[i].required_level
         /\ Matching[j].current_level = Matching[j].required_level

\* C4: a skill is in missing_skills if and only if it is a key of R that is
\* absent from O, and every missing_skills entry records current_level = 0
\* and required_level = R[skill].
C4_MissingIffAbsent ==
    Returned =>
        /\ Keys(Missing) = Keys(job_requirements) \ DOMAIN resume_skills
        /\ \A i \in 1..Len(Missing) :
             /\ Missing[i].current_level = 0
             /\ Missing[i].required_level = RequiredLevel(Missing[i].skill)

\* Some required skill is absent from O and some required skill is in O.
C4_Witness ==
    /\ Returned /\ InputsWellFormed
    /\ Missing # <<>>
    /\ Keys(job_requirements) \cap DOMAIN resume_skills # {}

\* The keys of the observed map that equal a name up to letter case.
ObservedIgnoringCase(skill) ==
    {o \in DOMAIN resume_skills : Lower(o) = Lower(skill)}

\* C5: skill names are compared case-insensitively when classifying: a
\* required skill whose name differs only in letter case from a key of the
\* observed map is treated as present, and is classified as matching or
\* below_level by its level, never as missing.
C5_CaseInsensitiveClassification ==
    (Returned /\ InputsWellFormed) =>
        \A skill \in Keys(job_requirements) :
            ObservedIgnoringCase(skill) # {} =>
                /\ skill \notin Keys(Missing)
                /\ \A o \in ObservedIgnoringCase(skill) :
                     ObservedIgnoringCase(skill) = {o} =>
                        IF resume_skills[o] >= RequiredLevel(skill)
                        THEN skill \in Keys(Matching)
                        ELSE skill \in Keys(BelowLevel)

\* C6: during one analyze_skill_gap call generate_learning_path is invoked
\* exactly once for each missing skill (current_level 0, target_level its
\* required level) and exactly once for each below-level skill (its
\* observed and required levels), no external call is made for a matching
\* skill, and the number of calls is |missing_skills| + |below_level_skills|.
C6_OneCallPerGapSkill ==
    /\ \A j \in 1..Len(calls) :
         /\ calls[j].fn = "generate_learning_path"
         /\ Cardinality(CallsFor(calls[j].skill)) = 1
         /\ calls[j].skill \notin Keys(gap_analysis.matching_skills)
    /\ Returned =>
         /\ \A i \in 1..Len(Missing) :
              \E j \in 1..Len(calls) :
                 calls[j] = CallRecord("generate_learning_path", Missing[i].skill,
                                       0, Missing[i].required_level)
         /\ \A i \in 1..Len(BelowLevel) :
              \E j \in 1..Len(calls) :
                 calls[j] = CallRecord("generate_learning_path", BelowLevel[i].skill,
                                       BelowLevel[i].current_level,
                                       BelowLevel[i].required_level)
         /\ Len(calls) = Len(Missing) + Len(BelowLevel)

\* An analysis with a missing, a below-level and a matching skill returned.
C6_Witness ==
    /\ Returned /\ InputsWellFormed
    /\ Missing # <<>> /\ Matching # <<>> /\ BelowLevel # <<>>
    /\ Len(calls) = 2

\* C7: if the advice call for a skill fails (the service raises or its
\* payload does not parse), analyze_skill_gap still returns the complete
\* report: the failing skill stays in its partition with nothing under
\* learning_paths, and the advice attached to every other skill is exactly
\* what that skill's own call returned.
C7_FailureIsolated ==
    /\ pc \in {"idle", "input_error", "missing_loop", "below_loop", "return",
              "returned"}
    /\ pc \notin {"idle", "input_error", "returned"} => ENABLED Next
    /\ Returned =>
         /\ returned.gap_analysis = Classify(resume_skills, job_requirements)
         /\ Len(results) = Len(calls)
         /\ \A j \in 1..Len(calls) :
              /\ calls[j].skill \in Keys(Missing) \cup Keys(BelowLevel)
              /\ IF results[j].success
                 THEN /\ calls[j].skill \in DOMAIN returned.learning_paths
                      /\ returned.learning_paths[calls[j].skill] = results[j].data
                 ELSE calls[j].skill \notin DOMAIN returned.learning_paths
         /\ DOMAIN returned.learning_paths \subseteq {calls[j].skill : j \in 1..Len(calls)}

\* One call raised, one returned an unparseable payload, and the call of a
\* third skill succeeded.
C7_Witness ==
    /\ Returned /\ InputsWellFormed
    /\ \E j, k, l \in 1..Len(results) :
         /\ ~results[j].success /\ results[j].error = "service_error"
         /\ ~results[k].success /\ results[k].error = "JSONDecodeError"
         /\ results[l].success

\* The skills a report records a soft failure for: under a key of the
\* report other than the partitions and the advice, or in a field of the
\* skill's partition entry other than its two levels.
SoftFailuresRecorded(report) ==
    {skill \in SkillNames :
        \/ \E f \in DOMAIN report \ {"gap_analysis", "learning_paths"} :
              skill \in DOMAIN report[f]
        \/ \E part \in {report.gap_analysis.missing_skills,
                         report.gap_analysis.below_level_skills} :
              \E i \in 1..Len(part) :
                 /\ part[i].skill = skill
                 /\ DOMAIN part[i] \ {"skill", "required_level", "current_level"} # {}}

\* C8: for every missing or below-level skill whose advice call does not
\* report success, the returned report records a per-skill soft failure.
C8_SoftFailureRecorded ==
    (Returned /\ InputsWellFormed) =>
        \A j \in 1..Len(calls) :
            ~results[j].success => calls[j].skill \in SoftFailuresRecorded(returned)

\* ------------------------------------------------- claims on the estimator

\* The phrases of a tier, for a lowercased skill name.
TierPhrases(tier, skill_lower) ==
    CASE tier = 5 -> ExpertPhrases(skill_lower)
      [] tier = 4 -> AdvancedPhrases(skill_lower)
      [] tier = 3 -> IntermediatePhrases(skill_lower)
      [] tier = 2 -> BasicPhrases(skill_lower)

\* The tiers one of whose phrases, instantiated with the lowercased skill
\* name, is a substring of the lowercased text.
TiersPresent(skill, document) ==
    {tier \in 2..5 :
        \E phrase \in TierPhrases(tier, Lower(skill)) :
            Contains(Lower(document), phrase)}

EstimateReturned == est # None /\ est.level # 0

\* C9: _estimate_proficiency returns the level of the highest tier one of
\* whose phrases is a substring of the lowercased text, and 1 when no tier
\* matches; a text with a Tier-3 and a Tier-5 phrase for the skill yields 5,
\* and the result is in 1..5, never 0.
C9_HighestTierWins ==
    EstimateReturned =>
        LET present == TiersPresent(est.skill, est.text)
        IN  /\ est.level \in 1..5
            /\ present = {} => est.level = 1
            /\ present # {} =>
                 /\ est.level \in present
                 /\ \A tier \in present : tier <= est.level
            /\ ({3, 5} \subseteq present) => est.level = 5

\* The text holds a Tier-3 and a Tier-5 phrase for the skill, the Tier-3
\* phrase first, and 5 was returned.
C9_Witness ==
    /\ EstimateReturned
    /\ TiersPresent(est.skill, est.text) = {3, 5}
    /\ Contains(SubSeq(Lower(est.text), 1, Len(ExperienceWith) + Len(est.skill)),
                ExperienceWith \o Lower(est.skill))
    /\ est.level = 5

\* ---------------------------------------------------- claims on the parser

Parsed == ppc = "parsed"

\* A name is, compared case-insensitively, a key of some category.
InOntologyIgnoringCase(name) ==
    \E key \in OntologyKeys(skill_ontology) : Lower(key) = Lower(name)

\* A name is, compared case-insensitively, a key of the output map.
InOutputIgnoringCase(name) ==
    \E key \in DOMAIN skill_levels : Lower(key) = Lower(name)

\* C10: a candidate skill from either scan is retained in the output map if
\* and only if its name, compared case-insensitively, is a key of some
\* category of the ontology; a pattern-scan candidate that differs from the
\* ontology key only in letter case is retained, and no candidate outside
\* the ontology is output.
C10_RetainedIffInOntology ==
    Parsed =>
        /\ \A candidate \in skills :
             InOutputIgnoringCase(candidate) <=> InOntologyIgnoringCase(candidate)
        /\ DOMAIN skill_levels \subseteq skills
        /\ DOMAIN skill_levels \subseteq OntologyKeys(skill_ontology)

\* The pattern scan added "go", the only ontology key that equals it up to
\* letter case is "Go", and it added a token that is in no category too.
C10_Witness ==
    /\ Parsed
    /\ NameGoLower \in pattern_skills
    /\ NameGoLower \notin OntologyKeys(skill_ontology)
    /\ NameGo \in OntologyKeys(skill_ontology)
    /\ \E candidate \in skills : ~InOntologyIgnoringCase(candidate)

\* C11: for every ontology, the absent and the empty one included, parsing
\* an empty document text yields an empty skill map and raises no error:
\* parse_resume raises only when no text could be extracted.
C11_EmptyTextEmptyMap ==
    /\ (Parsed /\ text = <<>>) =>
         /\ skills = {}
         /\ DOMAIN skill_levels = {}
    /\ ppc = "failed" => text = None

\* An empty text was parsed against an ontology that has keys in both
\* categories.
C11_Witness ==
    /\ Parsed /\ text = <<>>
    /\ \A category \in Categories :
         /\ category \in DOMAIN SkillsOf(skill_ontology)
         /\ SkillsOf(skill_ontology)[category] # {}

\* An empty text was parsed with no ontology file.
C11_WitnessAbsent ==
    /\ Parsed /\ text = <<>>
    /\ skill_ontology = LoadSkillOntology([exists |-> FALSE])

\* ----------------------------------------------------- claims on the UI

\* C12: an analysis asked for with the "Analyze Skills" button whose observed
\* or required map holds a level that is no SkillLevel (0, say) is turned
\* down: no gap report built from such maps is ever stored as the analysis
\* result.
C12_MalformedLevelsRejected ==
    analysis_results # None =>
        LET gap == analysis_results.gap_analysis
        IN  /\ \A i \in 1..Len(gap.missing_skills) :
                 gap.missing_skills[i].required_level \in SkillLevels
            /\ \A i \in 1..Len(gap.matching_skills) :
                 /\ gap.matching_skills[i].required_level \in SkillLevels
                 /\ gap.matching_skills[i].current_level \in SkillLevels
            /\ \A i \in 1..Len(gap.below_level_skills) :
                 /\ gap.below_level_skills[i].required_level \in SkillLevels
                 /\ gap.below_level_skills[i].current_level \in SkillLevels

\* The partitions of the analysis under way.
MissingKeys == Keys(gap_analysis.missing_skills)
BelowKeys == Keys(gap_analysis.below_level_skills)
MatchingKeys == Keys(gap_analysis.matching_skills)

\* Indices of the calls of one function of the service.
PathCalls == {j \in 1..Len(calls) : calls[j].fn = "generate_learning_path"}
TipCalls == {j \in 1..Len(calls) : calls[j].fn = "get_skill_improvement_tips"}

\* The skills of a sequence of calls, in order.
SkillsOfCalls(cs) == [j \in 1..Len(cs) |-> cs[j].skill]

\* C13: within one analysis the calls of the service are made one at a time,
\* each one returning before the next is made; every call for a missing
\* skill comes before every call for a below-level skill; a call of
\* get_skill_improvement_tips is made only once analyze_skill_gap has made
\* all of its calls and returned, only for a matching skill, and only for a
\* "Get tips" button the user pressed for that skill.
C13_CallsInOrder ==
    /\ Len(results) = Len(calls)
    /\ \A i \in PathCalls, j \in PathCalls :
         (i < j /\ calls[j].skill \in MissingKeys) => calls[i].skill \in MissingKeys
    /\ \A i \in PathCalls : calls[i].skill \in MissingKeys \cup BelowKeys
    /\ \A j \in TipCalls :
         /\ pc = "returned"
         /\ \A i \in PathCalls : i < j
         /\ Cardinality(PathCalls) = Cardinality(MissingKeys \cup BelowKeys)
         /\ calls[j].skill \in MatchingKeys
    /\ SkillsOfCalls(SelectSeq(calls, LAMBDA c : c.fn = "get_skill_improvement_tips"))
         = tip_clicks

\* A call for a missing skill, then a call for a below-level skill, then tips
\* asked for a matching skill.
C13_Witness ==
    /\ Len(calls) = 3
    /\ calls[1].skill \in MissingKeys
    /\ calls[2].skill \in BelowKeys
    /\ calls[3].fn = "get_skill_improvement_tips"
    /\ tip_clicks = <<calls[3].skill>>

\* C14: whenever the stored analysis has a matching skill, the Upskilling
\* Paths page, once drawn, shows the matching-skills section with a "Get
\* tips" button for each matching skill, also when learning_paths is empty.
C14_MatchingSectionReached ==
    (/\ view.kind # "none"
     /\ analysis_results # None
     /\ Len(analysis_results.gap_analysis.matching_skills) > 0) =>
        /\ "matching_skills" \in view.sections
        /\ Keys(analysis_results.gap_analysis.matching_skills) \subseteq view.tip_buttons

====
